---- MODULE Spec2Model ----
(***************************************************************************)
(* litestar-browser-reload: the reload websocket endpoint                  *)
(* (reload_endpoint / BrowserReloadHandler) and the plugin that registers  *)
(* it (BrowserReloadPlugin), src/litestar_browser_reload/__init__.py.      *)
(*                                                                         *)
(* The host framework builds ONE BrowserReloadHandler object when the      *)
(* route is registered and calls its bound methods on_accept /             *)
(* on_disconnect / on_receive for every connection, so the attributes      *)
(* self.ws and self._watch_task (lines 57-58) are one pair of slots for    *)
(* all connections: they are the variables ws and watch_task below.        *)
(*                                                                         *)
(* Scheduling is asyncio's: a coroutine runs without interruption up to    *)
(* its next await.  Every await of the source is a suspension point, so    *)
(* each action below is the code between two awaits.  A send_json is       *)
(* suspended from the call until the transport has taken the message (or   *)
(* has refused it); the client sees messages in the order the sends        *)
(* complete.                                                               *)
(***************************************************************************)
EXTENDS Integers, Sequences, FiniteSets

\* ---------------------------------------------------------------- bounds
MaxConns == 2
MaxChanges == 2
MaxReceives == 1

Conns == 1..MaxConns
\* The task created by on_accept of connection c is task c.
Tasks == Conns
NoConn == 0
NoTask == 0

\* ------------------------------------------------------------ the inputs
\* uuid.uuid4() at import: some identifier, the same for the whole run.
VersionIds == {"uuid-a", "uuid-b"}

\* Filesystem entries under the watched roots: directory components and
\* base name, which is all DefaultFilter looks at.
SrcFile == [parts |-> {"project", "src"}, name |-> "x.py"]
NodeModulesFile == [parts |-> {"project", "node_modules"}, name |-> "x.js"]
PycFile == [parts |-> {"project"}, name |-> "foo.pyc"]
LogFile == [parts |-> {"project", "build"}, name |-> "out.log"]
Paths == {SrcFile, NodeModulesFile, PycFile, LogFile}

\* One change: the raw events of one debounce window.
Changes == {{SrcFile}, {LogFile}, {NodeModulesFile, PycFile}, {SrcFile, LogFile}}

\* An optional argument: None, or a value.
None == [given |-> FALSE, value |-> {}]
Some(v) == [given |-> TRUE, value |-> v]

\* The plugin's arguments (BrowserReloadPlugin.__init__).  A watch_filter is
\* an opaque predicate; it is represented by the set of entries it reports.
IgnoreDirsArgs == {None, Some({"build"})}
IgnoreEntityPatternsArgs == {None, Some({"\\.log$"})}
WatchFilterArgs == {None, Some({NodeModulesFile, LogFile})}
\* The route handlers the application already has when the plugin runs.
AppRouteHandlers == <<"app">>

ReloadRoute == "/__reload__"
StaticRoute == "/__reload__/static"

VARIABLES
    version_id,       \* module attribute version_id (line 25)
    debug,            \* app_config.debug
    route_handlers,   \* app_config.route_handlers
    initialised,      \* on_app_init has run
    config,           \* the plugin's attributes (lines 83-86)
    ws,               \* self.ws of the one handler object
    watch_task,       \* self._watch_task of the one handler object
    connState,        \* where each connection's listener coroutine is
    gone,             \* the client of the connection has gone away
    sent,             \* messages the transport has taken, per connection
    taskState,        \* each watch task's position
    mustCancel,       \* Task.cancel() was called on a task that is not done
    sendTarget,       \* the socket a suspended prompt_reload is sending on
    awaiting,         \* the task a suspended on_disconnect awaits
    pending,          \* the task's watcher holds reported events not yet yielded
    yielded,          \* batches each task's async-for has taken
    nChanges,         \* filesystem changes so far
    nReported,        \* changes so far with an event the resolved filter reports
    lastChange,       \* the events the last step delivered ({}: it was no change)
    echoed            \* per connection, what on_receive got and what was sent back

vars == <<version_id, debug, route_handlers, initialised, config, ws, watch_task,
          connState, gone, sent, taskState, mustCancel, sendTarget, awaiting,
          pending, yielded, nChanges, nReported, lastChange, echoed>>

pluginVars == <<version_id, debug, route_handlers, initialised, config>>
handlerVars == <<ws, watch_task>>
connVars == <<connState, gone, awaiting>>
taskVars == <<taskState, mustCancel, sendTarget, pending, yielded>>
fsVars == <<nChanges, nReported>>

\* -------------------------------------------------------------- messages
\* task and batch say which watch task sent a reload and for which of its
\* batches; they are not on the wire.
PingMessageFreshUuid ==
    [type |-> "ping", versionId |-> "uuid-of-this-accept", task |-> NoTask, batch |-> 0]

PingMessage == [type |-> "ping", versionId |-> version_id, task |-> NoTask, batch |-> 0]
ReloadMessage(t, k) == [type |-> "reload", versionId |-> "", task |-> t, batch |-> k]

\* ---------------------------------------------------------------- filter
\* watchfiles.DefaultFilter: an argument left None keeps the class default.
DefaultIgnoreDirs == {"__pycache__", ".git", "node_modules", "site-packages"}
DefaultIgnoreEntityPatterns == {"\\.py[cod]$", "~$"}

\* re.search(pattern, name) on the names and patterns above.
RegexSearch(pattern, name) ==
    \/ pattern = "\\.py[cod]$" /\ name \in {"foo.pyc"}
    \/ pattern = "\\.log$" /\ name \in {"out.log"}

DefaultFilter(ignore_dirs, ignore_entity_patterns) ==
    [ignore_dirs |-> IF ignore_dirs.given THEN ignore_dirs.value ELSE DefaultIgnoreDirs,
     ignore_entity_patterns |-> IF ignore_entity_patterns.given
                                THEN ignore_entity_patterns.value
                                ELSE DefaultIgnoreEntityPatterns]

\* DefaultFilter.__call__: report the entry unless a component is an ignored
\* directory or the base name matches an ignored pattern.
DefaultFilterCall(f, p) ==
    /\ p.parts \cap f.ignore_dirs = {}
    /\ ~\E pattern \in f.ignore_entity_patterns : RegexSearch(pattern, p.name)

FilterClassBoth ==
    {p \in Paths : /\ config.watch_filter.given => p \in config.watch_filter.value
                   /\ DefaultFilterCall(DefaultFilter(config.ignore_dirs,
                                                      config.ignore_entity_patterns), p)}

\* lines 37-40: filter_class = watch_filter or DefaultFilter(...); the result
\* is the set of entries the chosen filter reports.
filter_class ==
    IF config.watch_filter.given
    THEN config.watch_filter.value
    ELSE {p \in Paths : DefaultFilterCall(DefaultFilter(config.ignore_dirs,
                                                        config.ignore_entity_patterns), p)}

\* awatch: the events of a change that the filter reports; an empty result
\* is not yielded.
Batch(change) == change \cap filter_class

\* ------------------------------------------------------------------ Init
Init ==
    /\ version_id \in VersionIds
    /\ debug \in BOOLEAN
    /\ route_handlers = AppRouteHandlers
    /\ initialised = FALSE
    /\ config \in [ignore_dirs : IgnoreDirsArgs,
                   ignore_entity_patterns : IgnoreEntityPatternsArgs,
                   watch_filter : WatchFilterArgs]
    /\ ws = NoConn
    /\ watch_task = NoTask
    /\ connState = [c \in Conns |-> "idle"]
    /\ gone = [c \in Conns |-> FALSE]
    /\ sent = [c \in Conns |-> << >>]
    /\ taskState = [t \in Tasks |-> "none"]
    /\ mustCancel = [t \in Tasks |-> FALSE]
    /\ sendTarget = [t \in Tasks |-> NoConn]
    /\ awaiting = [c \in Conns |-> NoTask]
    /\ pending = [t \in Tasks |-> FALSE]
    /\ yielded = [t \in Tasks |-> 0]
    /\ nChanges = 0
    /\ nReported = 0
    /\ lastChange = {}
    /\ echoed = [c \in Conns |-> << >>]


\* ------------------------------------------------------------ the plugin
OnAppInitUngated ==
    /\ ~initialised
    /\ initialised' = TRUE
    /\ route_handlers' = Append(Append(route_handlers, ReloadRoute), StaticRoute)
    /\ lastChange' = {}
    /\ UNCHANGED <<version_id, debug, config, handlerVars, connVars, sent,
                   taskVars, fsVars, echoed>>

\* BrowserReloadPlugin.on_app_init (lines 88-105).
on_app_init ==
    /\ ~initialised
    /\ initialised' = TRUE
    /\ route_handlers' = IF debug
                         THEN Append(Append(route_handlers, ReloadRoute), StaticRoute)
                         ELSE route_handlers
    /\ lastChange' = {}
    /\ UNCHANGED <<version_id, debug, config, handlerVars, connVars, sent,
                   taskVars, fsVars, echoed>>

\* The host routes a websocket to the handler only if the endpoint is in its
\* route table.
EndpointRegistered ==
    /\ initialised
    /\ \E i \in 1..Len(route_handlers) : route_handlers[i] = ReloadRoute

\* ----------------------------------------------------------- the handler
Running == {"created", "watching", "sending"}
Done == {"cancelled", "failed"}

\* on_accept (lines 55-59) up to its await: create the watch task, store it
\* and the socket on the handler object, call send_json with the ping.
\* Connections are numbered in the order they are accepted.
on_accept(c) ==
    /\ EndpointRegistered
    /\ connState[c] = "idle"
    /\ \A d \in Conns : d < c => connState[d] # "idle"
    /\ taskState' = [taskState EXCEPT ![c] = "created"]
    /\ watch_task' = c
    /\ ws' = c
    /\ connState' = [connState EXCEPT ![c] = "accepting"]
    /\ lastChange' = {}
    /\ UNCHANGED <<pluginVars, gone, awaiting, sent, mustCancel, sendTarget,
                   pending, yielded, fsVars, echoed>>

\* The ping's send_json (line 59) completes: the transport took the message,
\* or the client is gone and the send raises out of on_accept (the host then
\* never calls on_disconnect for the connection).
PingSendComplete(c) ==
    /\ connState[c] = "accepting"
    /\ IF gone[c]
       THEN /\ connState' = [connState EXCEPT ![c] = "accept_failed"]
            /\ sent' = sent
       ELSE /\ connState' = [connState EXCEPT ![c] = "active"]
            /\ sent' = [sent EXCEPT ![c] = Append(@, PingMessage)]
    /\ lastChange' = {}
    /\ UNCHANGED <<pluginVars, handlerVars, gone, awaiting, taskVars, fsVars, echoed>>

RECURSIVE SumLen(_, _)
SumLen(f, S) == IF S = {} THEN 0
                ELSE LET x == CHOOSE y \in S : TRUE IN Len(f[x]) + SumLen(f, S \ {x})

\* Client messages handled so far.
NReceived == SumLen(echoed, Conns)

OnReceiveReturnsReload(data) == "reload"

\* on_receive's return value (line 70).
OnReceiveReturn(data) == data

\* on_receive (lines 69-70) returns its argument; the listener sends the
\* return value back on the connection that received it.
on_receive(c, data) ==
    /\ connState[c] = "active"
    /\ ~gone[c]
    /\ NReceived < MaxReceives
    /\ echoed' = [echoed EXCEPT ![c] =
                     Append(@, [received |-> data, returned |-> OnReceiveReturn(data)])]
    /\ lastChange' = {}
    /\ UNCHANGED <<pluginVars, handlerVars, connVars, sent, taskVars, fsVars>>

\* The client goes away; the listener learns of it at its next receive.
ClientGone(c) ==
    /\ connState[c] \in {"accepting", "active"}
    /\ ~gone[c]
    /\ gone' = [gone EXCEPT ![c] = TRUE]
    /\ lastChange' = {}
    /\ UNCHANGED <<pluginVars, handlerVars, connState, awaiting, sent, taskVars,
                   fsVars, echoed>>

AwaitOutcomeNoExcept(t) == "raised"

\* What `await task` gives on_disconnect (lines 64-67) once the task is done:
\* CancelledError is caught and on_disconnect returns; any other exception
\* of the task is raised out of on_disconnect.
AwaitOutcome(t) == IF taskState[t] = "cancelled" THEN "closed" ELSE "raised"

\* on_disconnect (lines 61-67) up to its await: cancel self._watch_task (a
\* no-op on a task that is done) and await it.
on_disconnect(c) ==
    /\ connState[c] = "active"
    /\ gone[c]
    /\ mustCancel' = [t \in Tasks |->
                        mustCancel[t] \/ (t = watch_task /\ taskState[t] \in Running)]
    /\ IF taskState[watch_task] \in Done
       THEN /\ connState' = [connState EXCEPT ![c] = AwaitOutcome(watch_task)]
            /\ awaiting' = awaiting
       ELSE /\ connState' = [connState EXCEPT ![c] = "disconnecting"]
            /\ awaiting' = [awaiting EXCEPT ![c] = watch_task]
    /\ lastChange' = {}
    /\ UNCHANGED <<pluginVars, handlerVars, gone, sent, taskState, sendTarget,
                   pending, yielded, fsVars, echoed>>

\* The awaited task is done: on_disconnect resumes at line 65.
DisconnectResume(c) ==
    /\ connState[c] = "disconnecting"
    /\ taskState[awaiting[c]] \in Done
    /\ connState' = [connState EXCEPT ![c] = AwaitOutcome(awaiting[c])]
    /\ awaiting' = [awaiting EXCEPT ![c] = NoTask]
    /\ lastChange' = {}
    /\ UNCHANGED <<pluginVars, handlerVars, gone, sent, taskVars, fsVars, echoed>>

\* -------------------------------------------------------- the watch task
\* watch_reload's first step (lines 37-44): build the filter, start awatch
\* and suspend in its first __anext__.
TaskStart(t) ==
    /\ taskState[t] = "created"
    /\ ~mustCancel[t]
    /\ taskState' = [taskState EXCEPT ![t] = "watching"]
    /\ lastChange' = {}
    /\ UNCHANGED <<pluginVars, handlerVars, connVars, sent, mustCancel, sendTarget,
                   pending, yielded, fsVars, echoed>>

\* awatch raises instead (a watched root that does not exist): the task ends
\* with that exception.
WatchFatal(t) ==
    /\ taskState[t] = "created"
    /\ ~mustCancel[t]
    /\ taskState' = [taskState EXCEPT ![t] = "failed"]
    /\ lastChange' = {}
    /\ UNCHANGED <<pluginVars, handlerVars, connVars, sent, mustCancel, sendTarget,
                   pending, yielded, fsVars, echoed>>

\* A filesystem change under the watched roots.  Every task whose awatch has
\* started has its own watcher; events the filter does not report are
\* dropped, the others are held (merged with what is already held) until the
\* task's next __anext__.
FsChange(change) ==
    /\ nChanges < MaxChanges
    /\ nChanges' = nChanges + 1
    /\ lastChange' = change
    /\ nReported' = IF Batch(change) # {} THEN nReported + 1 ELSE nReported
    /\ pending' = [t \in Tasks |->
                     pending[t] \/ (taskState[t] \in {"watching", "sending"}
                                    /\ Batch(change) # {})]
    /\ UNCHANGED <<pluginVars, handlerVars, connVars, sent, taskState, mustCancel,
                   sendTarget, yielded, echoed>>

\* prompt_reload (lines 50-53) up to its await: the socket it sends on is
\* self.ws as it is now.
PromptReloadTarget == ws

TaskYieldWithoutAwait(t) ==
    /\ taskState[t] \in {"watching", "sending"}
    /\ ~mustCancel[t]
    /\ pending[t]
    /\ pending' = [pending EXCEPT ![t] = FALSE]
    /\ yielded' = [yielded EXCEPT ![t] = @ + 1]
    /\ taskState' = [taskState EXCEPT ![t] = "sending"]
    /\ sendTarget' = [sendTarget EXCEPT ![t] = PromptReloadTarget]
    /\ lastChange' = {}
    /\ UNCHANGED <<pluginVars, handlerVars, connVars, sent, mustCancel, fsVars, echoed>>

\* awatch yields a batch (line 41) and the loop body calls prompt_reload
\* (line 45), which calls send_json if self.ws is set.
TaskYield(t) ==
    /\ taskState[t] = "watching"
    /\ ~mustCancel[t]
    /\ pending[t]
    /\ pending' = [pending EXCEPT ![t] = FALSE]
    /\ yielded' = [yielded EXCEPT ![t] = @ + 1]
    /\ IF PromptReloadTarget # NoConn
       THEN /\ taskState' = [taskState EXCEPT ![t] = "sending"]
            /\ sendTarget' = [sendTarget EXCEPT ![t] = PromptReloadTarget]
       ELSE UNCHANGED <<taskState, sendTarget>>
    /\ lastChange' = {}
    /\ UNCHANGED <<pluginVars, handlerVars, connVars, sent, mustCancel, fsVars, echoed>>

ReloadSendCompleteTwice(t) ==
    /\ taskState[t] = "sending"
    /\ ~mustCancel[t]
    /\ IF gone[sendTarget[t]]
       THEN /\ taskState' = [taskState EXCEPT ![t] = "failed"]
            /\ sent' = sent
       ELSE /\ taskState' = [taskState EXCEPT ![t] = "watching"]
            /\ sent' = [sent EXCEPT ![sendTarget[t]] =
                           Append(Append(@, ReloadMessage(t, yielded[t])),
                                  ReloadMessage(t, yielded[t]))]
    /\ sendTarget' = [sendTarget EXCEPT ![t] = NoConn]
    /\ lastChange' = {}
    /\ UNCHANGED <<pluginVars, handlerVars, connVars, mustCancel, pending, yielded,
                   fsVars, echoed>>

\* The reload's send_json (line 53) completes: the transport took the
\* message and the loop suspends in the next __anext__, or the client is
\* gone and the send raises, which ends the task.
ReloadSendComplete(t) ==
    /\ taskState[t] = "sending"
    /\ ~mustCancel[t]
    /\ IF gone[sendTarget[t]]
       THEN /\ taskState' = [taskState EXCEPT ![t] = "failed"]
            /\ sent' = sent
       ELSE /\ taskState' = [taskState EXCEPT ![t] = "watching"]
            /\ sent' = [sent EXCEPT ![sendTarget[t]] = Append(@, ReloadMessage(t, yielded[t]))]
    /\ sendTarget' = [sendTarget EXCEPT ![t] = NoConn]
    /\ lastChange' = {}
    /\ UNCHANGED <<pluginVars, handlerVars, connVars, mustCancel, pending, yielded,
                   fsVars, echoed>>

\* A task that cancel() was called on gets CancelledError at its suspension
\* point (or before its first step) and ends cancelled.  A send it was
\* suspended in may or may not have reached the transport.
TaskCancelled(t) ==
    /\ taskState[t] \in Running
    /\ mustCancel[t]
    /\ taskState' = [taskState EXCEPT ![t] = "cancelled"]
    /\ mustCancel' = [mustCancel EXCEPT ![t] = FALSE]
    /\ sendTarget' = [sendTarget EXCEPT ![t] = NoConn]
    /\ \E delivered \in BOOLEAN :
         sent' = IF delivered /\ taskState[t] = "sending" /\ ~gone[sendTarget[t]]
                 THEN [sent EXCEPT ![sendTarget[t]] = Append(@, ReloadMessage(t, yielded[t]))]
                 ELSE sent
    /\ lastChange' = {}
    /\ UNCHANGED <<pluginVars, handlerVars, connVars, pending, yielded, fsVars, echoed>>

\* ---------------------------------------------------------- specification
ClientData == {"hello", "reload"}

Next ==
    \/ on_app_init
    \/ \E c \in Conns : on_accept(c)
    \/ \E c \in Conns : PingSendComplete(c)
    \/ \E c \in Conns : \E data \in ClientData : on_receive(c, data)
    \/ \E c \in Conns : ClientGone(c)
    \/ \E c \in Conns : on_disconnect(c)
    \/ \E c \in Conns : DisconnectResume(c)
    \/ \E t \in Tasks : TaskStart(t)
    \/ \E t \in Tasks : WatchFatal(t)
    \/ \E change \in Changes : FsChange(change)
    \/ \E t \in Tasks : TaskYield(t)
    \/ \E t \in Tasks : ReloadSendComplete(t)
    \/ \E t \in Tasks : TaskCancelled(t)

Spec == Init /\ [][Next]_vars

\* The event loop runs every coroutine that is ready: a created task gets its
\* first step, a cancelled task gets its CancelledError, an awaiting
\* on_disconnect resumes once the task it awaits is done.  Sends, filesystem
\* changes and clients are not obliged to act.
Fairness ==
    /\ \A t \in Tasks : WF_vars(TaskStart(t) \/ WatchFatal(t))
    /\ \A t \in Tasks : WF_vars(TaskCancelled(t))
    /\ \A c \in Conns : WF_vars(DisconnectResume(c))
    /\ \A c \in Conns : WF_vars(on_disconnect(c))


\* A specification with the same steps and the event loop's fairness, for one
\* set of plugin arguments.
FairInit ==
    /\ Init
    /\ debug
    /\ version_id = "uuid-a"
    /\ config = [ignore_dirs |-> None, ignore_entity_patterns |-> None,
                 watch_filter |-> None]

FairSpec == FairInit /\ [][Next]_vars /\ Fairness

\* ------------------------------------------------------------ properties
IsReload(m) == m.type = "reload"
IsPing(m) == m.type = "ping"
Reloads(c) == SelectSeq(sent[c], IsReload)
Pings(c) == SelectSeq(sent[c], IsPing)
\* on_accept has completed for the connection.
Accepted(c) == connState[c] \in {"active", "disconnecting", "closed", "raised"}
\* on_disconnect has ended for the connection.
Ended(c) == connState[c] \in {"closed", "raised"}
\* Reload messages of task t that the transports have taken, on any connection.
RECURSIVE SentBy(_, _)
SentBy(t, S) ==
    IF S = {} THEN 0
    ELSE LET c == CHOOSE d \in S : TRUE
             IsFromT(m) == m.type = "reload" /\ m.task = t
         IN Len(SelectSeq(sent[c], IsFromT)) + SentBy(t, S \ {c})

\* No ping send is under way, and every connection that has taken a message
\* took the ping first: what follows does not rest on a reload overtaking a
\* ping.
PingsDone ==
    \A c \in Conns :
        /\ connState[c] # "accepting"
        /\ sent[c] # << >> => IsPing(sent[c][1])

\* C1: on every connection the first message is the ping, and while the
\* connection's ping send has not completed no reload has been sent on it and
\* no reload send is under way on it.
C1_PingBeforeAnyReload ==
    \A c \in Conns :
        /\ sent[c] # << >> => IsPing(sent[c][1])
        /\ connState[c] = "accepting" =>
              /\ Reloads(c) = << >>
              /\ \A t \in Tasks : sendTarget[t] # c

\* C2: a connection is sent the ping at most once, exactly once when its
\* on_accept has completed, always with the process's version stamp; and no
\* step changes the stamp.
C2_PingState ==
    \A c \in Conns :
        /\ Len(Pings(c)) <= 1
        /\ Accepted(c) => Len(Pings(c)) = 1
        /\ \A i \in 1..Len(sent[c]) :
              IsPing(sent[c][i]) => sent[c][i].versionId = version_id

C2_OnePingSameStamp == [][version_id' = version_id /\ C2_PingState']_vars

C2_Witness ==
    /\ Len(Pings(1)) = 1 /\ Len(Pings(2)) = 1
    /\ Ended(1)
    /\ echoed[2] # << >>
    /\ \E c \in Conns : Reloads(c) # << >>

\* C3: while one connection is the only one opened and its client is there,
\* the reloads on it are one per batch its watch task has taken, in the order
\* taken (the batch whose send is under way excepted); and on any connection
\* the reloads of one task are in the order of its batches, none twice.
OnlyConn(c) == connState[c] # "idle" /\ \A d \in Conns \ {c} : connState[d] = "idle"
BatchesSent(t) == yielded[t] - (IF taskState[t] = "sending" THEN 1 ELSE 0)

C3_OneReloadPerBatchInOrder ==
    /\ \A c \in Conns :
          OnlyConn(c) /\ ~gone[c] =>
              /\ Len(Reloads(c)) = BatchesSent(c)
              /\ \A i \in 1..Len(Reloads(c)) : Reloads(c)[i] = ReloadMessage(c, i)
    /\ \A c \in Conns :
          \A i, j \in 1..Len(Reloads(c)) :
              i < j /\ Reloads(c)[i].task = Reloads(c)[j].task
                  => Reloads(c)[i].batch < Reloads(c)[j].batch

C3_Witness ==
    /\ OnlyConn(1) /\ ~gone[1]
    /\ Len(Reloads(1)) = MaxChanges
    /\ sent[1][1].type = "ping"

\* C4: once on_disconnect has returned for a connection, the watch task its
\* on_accept started sends no further reload, on any connection.
C4_NoReloadAfterDisconnect ==
    [][\A c \in Conns :
          connState[c] = "closed" /\ PingsDone => SentBy(c, Conns)' = SentBy(c, Conns)]_vars

\* C5: on_disconnect of a connection requests the cancellation of the task
\* that connection's on_accept started, if it is still running, and of no
\* other task.
C5_CancelsOwnTaskOnly ==
    [][\A c \in Conns :
          (/\ PingsDone
           /\ connState[c] = "active"
           /\ connState'[c] \in {"disconnecting", "closed", "raised"})
          => (/\ taskState[c] \in Running => mustCancel'[c]
              /\ \A t \in Tasks \ {c} : mustCancel'[t] = mustCancel[t])]_vars

\* C6: a reload of a session's watch task is sent on that session's
\* connection: every reload taken by a connection, and every reload send
\* under way, is on the connection whose on_accept started the task.
C6_ReloadOnOwnConnection ==
    PingsDone =>
        /\ \A c \in Conns : \A i \in 1..Len(Reloads(c)) : Reloads(c)[i].task = c
        /\ \A t \in Tasks : sendTarget[t] \in {NoConn, t}

\* C7: once on_disconnect has begun for a connection, eventually it has ended
\* and the task that connection's on_accept started is done.  (It is asked
\* only of disconnects that begin with every ping sent and no task failed.)
C7_DisconnectTerminatesTask ==
    \A c \in Conns :
        (/\ connState[c] \in {"disconnecting", "closed", "raised"}
         /\ PingsDone
         /\ \A t \in Tasks : taskState[t] # "failed")
            ~> (Ended(c) /\ taskState[c] \in Done)

\* C8: with debug off on_app_init leaves the route handlers as they were and
\* no watch task ever exists; with debug on it appends the reload endpoint
\* and the static route to the handlers present, which are kept.
C8_RoutesOnlyInDebug ==
    /\ ~initialised => route_handlers = AppRouteHandlers
    /\ initialised /\ ~debug =>
          /\ route_handlers = AppRouteHandlers
          /\ \A t \in Tasks : taskState[t] = "none" /\ ~pending[t]
          /\ \A c \in Conns : connState[c] = "idle" /\ sent[c] = << >>
    /\ initialised /\ debug =>
          route_handlers = AppRouteHandlers \o <<ReloadRoute, StaticRoute>>

C8_Witness == initialised /\ ~debug /\ nChanges = MaxChanges

\* C9: a change the resolved filter suppresses gives no reload and a change
\* it reports gives one reload on each connection: no connection has taken
\* more reloads than there were reported changes.
C9_OneReloadPerReportedChange ==
    PingsDone => \A c \in Conns : Len(Reloads(c)) <= nReported

\* C10: which changes reach a running watcher is decided by watch_filter
\* alone when it is given (ignore_dirs and ignore_entity_patterns play no
\* part), and by the default filter built from them when it is not.
ExpectedReported ==
    IF config.watch_filter.given
    THEN config.watch_filter.value
    ELSE {p \in Paths : DefaultFilterCall(DefaultFilter(config.ignore_dirs,
                                                        config.ignore_entity_patterns), p)}

C10_OverrideIsTheOnlyFilter ==
    [][nChanges' = nChanges + 1 =>
          \A t \in Tasks :
              pending'[t] = (pending[t] \/ (/\ taskState[t] \in {"watching", "sending"}
                                            /\ lastChange' \cap ExpectedReported # {}))]_vars

C10_Witness ==
    /\ config.watch_filter.given
    /\ config.ignore_dirs.given
    /\ lastChange = {LogFile}
    /\ pending[1]

\* C11: a message from the client is sent back as it came, and handling it
\* sends nothing else, leaves every watch task and every cancellation request
\* as they were, and leaves the handler's socket and task slots and the
\* version stamp unchanged.
C11_ReceiveOnlyEchoes ==
    [][echoed' # echoed =>
          /\ \E c \in Conns : \E data \in ClientData :
                /\ connState[c] = "active"
                /\ echoed' = [echoed EXCEPT ![c] =
                                 Append(@, [received |-> data, returned |-> data])]
          /\ UNCHANGED <<sent, taskState, mustCancel, sendTarget, pending, yielded,
                         ws, watch_task, version_id, connState, awaiting>>]_vars

C11_Witness ==
    /\ echoed[1] = <<[received |-> "hello", returned |-> "hello"]>>
    /\ taskState[1] = "sending"
    /\ Len(Reloads(1)) = 1

\* C12: a failure stays in the session it happened in: a watch task ends
\* with a failed reload send only when the client that is gone is the one of
\* the session that started the task, so a client going away never ends the
\* watch task of another session.
C12_FailureStaysInSession ==
    [][\A t \in Tasks :
          (/\ PingsDone
           /\ taskState[t] = "sending"
           /\ taskState'[t] = "failed")
          => gone[t]]_vars

\* C13: no session has a watch task, created or running, while its ping
\* send has not completed.
C13_NoTaskBeforePingSent ==
    \A c \in Conns : connState[c] = "accepting" => taskState[c] \notin Running

\* C14: when the ping send of on_accept has failed, the session has no watch
\* task that is created or running.
C14_NoTaskAfterFailedPing ==
    \A c \in Conns : connState[c] = "accept_failed" => taskState[c] \notin Running

\* C15: a session that is Active has its watch task running.  (It is asked
\* only where every ping is sent, the client is there and no task has ended
\* with an exception.)
C15_OneRunningTaskWhileActive ==
    \A c \in Conns :
        (/\ connState[c] = "active"
         /\ ~gone[c]
         /\ PingsDone
         /\ \A t \in Tasks : taskState[t] # "failed")
        => taskState[c] \in Running

\* C16: an on_disconnect that cancelled a running watch task and awaited it
\* returns normally once the task has ended: the cancellation is not raised
\* out of it.
C16_CancellationSwallowed ==
    [][\A c \in Conns :
          connState[c] = "disconnecting" /\ connState'[c] # "disconnecting"
              => /\ taskState[awaiting[c]] = "cancelled"
                 /\ connState'[c] = "closed"]_vars

C16_Witness ==
    /\ OnlyConn(1)
    /\ connState[1] = "closed"
    /\ taskState[1] = "cancelled"
    /\ yielded[1] > 0

\* C17: on_disconnect never ends by raising, whatever exception the watch
\* task ended with.
C17_NoExceptionOutOfDisconnect ==
    \A c \in Conns : connState[c] # "raised"

\* C18: when on_disconnect has returned for a connection, the watch task
\* that connection's on_accept started is done.
C18_ClosedOnlyAfterTaskDone ==
    \A c \in Conns : connState[c] = "closed" /\ PingsDone => taskState[c] \in Done

\* C19: a watch task takes a batch only when it is not suspended in a reload
\* send, and every batch it took before has been taken by a transport: its
\* sends never overlap.
C19_OneBatchAtATime ==
    [][\A t \in Tasks :
          yielded'[t] # yielded[t]
              => /\ yielded'[t] = yielded[t] + 1
                 /\ taskState[t] = "watching"
                 /\ sendTarget[t] = NoConn
                 /\ SentBy(t, Conns) = yielded[t]]_vars

C19_Witness ==
    /\ yielded[1] = 2
    /\ taskState[1] = "sending"
    /\ SentBy(1, Conns) = 1

====
